---- MODULE Spec2Model ----
(***************************************************************************)
(* Primitive options of featuretools: normalisation of the user's options  *)
(* (_init_option_dict, _init_primitive_options), their reconciliation with *)
(* the global ignore rules (generate_all_primitive_options) and the        *)
(* filters built from the resolved records (ignore_entity_for_primitive,   *)
(* filter_matches_by_options, filter_groupby_matches_by_options).          *)
(*                                                                         *)
(* A Python dict is a function whose DOMAIN is its key set, so that key    *)
(* presence ('include_entities' in option) is DOMAIN membership.  A Python *)
(* list is a sequence, a Python set a set.  A raised exception is the      *)
(* value of the variable raised.                                           *)
(***************************************************************************)
EXTENDS Naturals, Sequences, FiniteSets, TLC

VARIABLES
    call,               \* the function called
    pc,                 \* position of the call: "called", "returned", ...
    raised,             \* "none", or the exception the call ended in
    options,            \* resolved option records of one primitive (a list)
    entity,             \* ignore_entity_for_primitive: entity.id
    groupby,            \* the groupby flag of the filters
    ignored,            \* value returned by ignore_entity_for_primitive
    matches,            \* filter_matches_by_options: the candidate matches
    groupby_matches,    \* filter_groupby_matches_by_options: the candidates
    valid_matches,      \* the set the filter returns
    primitive_options,  \* the caller's raw mapping primitive key -> options
    all_primitives,     \* the caller's list of primitive names
    ignore_entities,    \* the caller's global ignore_entities set
    ignore_variables,   \* the caller's global ignore_variables dict
    flattened_options,  \* primitive name -> id of its list of option records
    option_lists,       \* id -> list of option records (shared by reference)
    aliased,            \* ids of the lists whose record's ignore_variables
                        \* is the caller's ignore_variables dict itself
    global_ignore_entities, \* the local of generate_all_primitive_options
    i,                  \* position of its loop in all_primitives
    warnings,           \* the warnings issued
    result,             \* <<>>, or the tuple of the values returned
    call_no,            \* 1, or 2 for the repeated call
    first_result        \* the result of call 1 during call 2

filter_vars == <<options, entity, groupby, ignored, matches, groupby_matches,
                 valid_matches>>

builder_vars == <<primitive_options, all_primitives, ignore_entities,
                  ignore_variables, flattened_options, option_lists, aliased,
                  global_ignore_entities, i, warnings, result, call_no,
                  first_result>>

vars == <<call, pc, raised, filter_vars, builder_vars>>

----------------------------------------------------------------------------
(* Helpers for Python values. *)

EmptyDict == [k \in {} |-> {}]

\* the lists (sequences) over S of length at most n
SeqsUpTo(S, n) == UNION {[1..k -> S] : k \in 0..n}

\* set(list)
ToSet(list) == {list[k] : k \in DOMAIN list}

Min(a, b) == IF a <= b THEN a ELSE b

\* dict.get(key) followed by "if ... else set([])": an absent key and an
\* empty value both give the empty set
GetOrEmpty(dict, key) == IF key \in DOMAIN dict THEN dict[key] ELSE {}

----------------------------------------------------------------------------
(* The entityset of the examples: entity id -> variable ids.  "sessions"   *)
(* is an entity id that options may name although the entityset lacks it.  *)

EntitysetDict ==
    [customers |-> {"id", "age"},
     transactions |-> {"id", "customer_id", "amount"}]

Entities == {"customers", "transactions", "sessions"}

----------------------------------------------------------------------------
(* ignore_entity_for_primitive                                             *)

\* should_ignore_entity with a fault: the groupby include list is consulted
\* whatever the groupby flag is
ShouldIgnoreEntityUnguarded(option, e, gb) ==
    IF \/ ("include_entities" \in DOMAIN option
           /\ e \notin option["include_entities"])
       \/ ("include_groupby_entities" \in DOMAIN option
           /\ e \notin option["include_groupby_entities"])
    THEN TRUE
    ELSE IF \/ e \in option["ignore_entities"]
            \/ (gb /\ "ignore_groupby_entities" \in DOMAIN option
                /\ e \in option["ignore_groupby_entities"])
         THEN TRUE
         ELSE FALSE

\* should_ignore_entity with a fault: include_entities is not consulted
ShouldIgnoreEntityNoInclude(option, e, gb) ==
    IF gb /\ "include_groupby_entities" \in DOMAIN option
          /\ e \notin option["include_groupby_entities"]
    THEN TRUE
    ELSE IF \/ e \in option["ignore_entities"]
            \/ (gb /\ "ignore_groupby_entities" \in DOMAIN option
                /\ e \in option["ignore_groupby_entities"])
         THEN TRUE
         ELSE FALSE

\* should_ignore_entity(option), with entity and groupby of the enclosing call
ShouldIgnoreEntity(option, e, gb) ==
    IF \/ ("include_entities" \in DOMAIN option
           /\ e \notin option["include_entities"])
       \/ (gb /\ "include_groupby_entities" \in DOMAIN option
           /\ e \notin option["include_groupby_entities"])
    THEN TRUE
    ELSE IF \/ e \in option["ignore_entities"]
            \/ (gb /\ "ignore_groupby_entities" \in DOMAIN option
                /\ e \in option["ignore_groupby_entities"])
         THEN TRUE
         ELSE FALSE

\* any([should_ignore_entity(option) for option in options])
IgnoreEntityForPrimitive(opts, e, gb) ==
    \E k \in DOMAIN opts : ShouldIgnoreEntity(opts[k], e, gb)

----------------------------------------------------------------------------
(* Features.  A base feature (IdentityFeature) reads one variable of one   *)
(* entity; any other feature has an entity but the filters never read a    *)
(* variable from it.                                                       *)

IdentityFeature(e, v) == [identity |-> TRUE, entity |-> e, variable |-> v]
OtherFeature(e) == [identity |-> FALSE, entity |-> e]

----------------------------------------------------------------------------
(* _variable_filter_generator                                              *)

passes_ignore_filter(option, f) ==
    \/ ~f.identity
    \/ f.entity \notin DOMAIN option["ignore_variables"]
    \/ f.variable \notin option["ignore_variables"][f.entity]

passes_include_filter(option, f) ==
    \/ ~f.identity
    \/ /\ f.entity \in DOMAIN option["include_variables"]
       /\ f.variable \in option["include_variables"][f.entity]

\* variable_filter with a fault: the ignore rule also passes features of an
\* entity that include_variables lists
VariableFilterIgnoreAlways(option, f) ==
    IF "include_variables" \in DOMAIN option
    THEN \/ passes_include_filter(option, f)
         \/ passes_ignore_filter(option, f)
    ELSE passes_ignore_filter(option, f)

\* the variable_filter that _variable_filter_generator(options) returns,
\* applied to f
VariableFilter(option, f) ==
    IF "include_variables" \in DOMAIN option
    THEN \/ passes_include_filter(option, f)
         \/ /\ f.entity \notin DOMAIN option["include_variables"]
            /\ passes_ignore_filter(option, f)
    ELSE passes_ignore_filter(option, f)

----------------------------------------------------------------------------
(* _groupby_filter_generator                                               *)

passes_include_groupby_filter(option, f) ==
    /\ f.identity
    /\ f.entity \in DOMAIN option["include_groupby_variables"]
    /\ f.variable \in option["include_groupby_variables"][f.entity]

passes_ignore_groupby_filter(option, f) ==
    /\ f.identity
    /\ \/ f.entity \notin DOMAIN option["ignore_groupby_variables"]
       \/ /\ f.entity \in DOMAIN option["ignore_groupby_variables"]
          /\ f.variable \notin option["ignore_groupby_variables"][f.entity]

\* the groupby_filter that _groupby_filter_generator(options) returns,
\* applied to f
GroupbyFilter(option, f) ==
    IF /\ "include_groupby_variables" \in DOMAIN option
       /\ "ignore_groupby_variables" \in DOMAIN option
    THEN \/ passes_include_groupby_filter(option, f)
         \/ /\ f.entity \notin DOMAIN option["include_groupby_variables"]
            /\ passes_ignore_groupby_filter(option, f)
    ELSE IF "include_groupby_variables" \in DOMAIN option
    THEN \/ passes_include_groupby_filter(option, f)
         \/ f.entity \notin DOMAIN option["include_groupby_variables"]
    ELSE IF "ignore_groupby_variables" \in DOMAIN option
    THEN passes_ignore_groupby_filter(option, f)
    ELSE f.identity

----------------------------------------------------------------------------
(* filter_matches_by_options, filter_groupby_matches_by_options            *)

\* generator(option)(f)
Generator(gb, option, f) ==
    IF gb THEN GroupbyFilter(option, f) ELSE VariableFilter(option, f)

\* is_valid_match with a fault: the first record is applied to every
\* position
IsValidMatchFirstRecord(match, opts, gb) ==
    \A k \in DOMAIN match : Generator(gb, opts[1], match[k])

\* is_valid_match(match); zip stops at the shorter of the record list and
\* the match.  Only evaluated with at least one record: see FilterRaises.
IsValidMatch(match, opts, gb) ==
    IF Len(opts) > 1
    THEN \A k \in 1..Min(Len(opts), Len(match)) :
            Generator(gb, opts[k], match[k])
    ELSE \A k \in DOMAIN match : Generator(gb, opts[1], match[k])

\* options[0] of an empty list, evaluated by is_valid_match for the first
\* match of the loop
FilterRaises(candidates, opts) == Len(opts) = 0 /\ Len(candidates) > 0

\* filter_matches_by_options(matches, options, groupby): the exception
\* raised ("none" if none) and the set returned
FilterMatchesByOptions(candidates, opts, gb) ==
    IF FilterRaises(candidates, opts)
    THEN [raised |-> "IndexError", valid_matches |-> {}]
    ELSE [raised |-> "none",
          valid_matches |->
              {candidates[k] : k \in
                  {j \in DOMAIN candidates : IsValidMatch(candidates[j], opts, gb)}}]

\* filter_groupby_matches_by_options(groupby_matches, options)
FilterGroupbyMatchesByOptions(candidates, opts) ==
    FilterMatchesByOptions([k \in DOMAIN candidates |-> <<candidates[k]>>],
                           opts, TRUE)

----------------------------------------------------------------------------
\* Resolved option records as far as entities go.  Every resolved record has
\* ignore_entities and ignore_variables; the other keys are there only if
\* the user gave them.
OptionalKey(key, values) == {EmptyDict} \cup {key :> v : v \in values}

EntityOptionRecords ==
    {[ignore_entities |-> ign, ignore_variables |-> EmptyDict] @@ inc @@ gign @@ ginc :
        ign \in {{}, {"transactions"}, {"customers"}},
        inc \in OptionalKey("include_entities",
                            {{"customers"}, {"customers", "transactions"}}),
        gign \in OptionalKey("ignore_groupby_entities", {{"sessions"}}),
        ginc \in OptionalKey("include_groupby_entities", {{"customers"}})}

\* longest list of option records of one primitive
MaxOptions == 2

FilterIdle ==
    /\ options = <<>>
    /\ entity = "customers"
    /\ groupby = FALSE
    /\ ignored = FALSE
    /\ matches = <<>>
    /\ groupby_matches = <<>>
    /\ valid_matches = {}

BuilderIdle ==
    /\ primitive_options = <<>>
    /\ all_primitives = <<>>
    /\ ignore_entities = {}
    /\ ignore_variables = EmptyDict
    /\ flattened_options = EmptyDict
    /\ option_lists = EmptyDict
    /\ aliased = {}
    /\ global_ignore_entities = {}
    /\ i = 0
    /\ warnings = {}
    /\ result = <<>>
    /\ call_no = 1
    /\ first_result = <<>>

InitEntity ==
    /\ call = "ignore_entity_for_primitive"
    /\ pc = "called"
    /\ raised = "none"
    /\ options \in SeqsUpTo(EntityOptionRecords, MaxOptions)
    /\ entity \in Entities
    /\ groupby \in BOOLEAN
    /\ ignored = FALSE
    /\ matches = <<>>
    /\ groupby_matches = <<>>
    /\ valid_matches = {}
    /\ BuilderIdle

IgnoreEntityCall ==
    /\ call = "ignore_entity_for_primitive"
    /\ pc = "called"
    /\ ignored' = IgnoreEntityForPrimitive(options, entity, groupby)
    /\ pc' = "returned"
    /\ UNCHANGED <<call, raised, options, entity, groupby, matches,
                   groupby_matches, valid_matches, builder_vars>>

NextEntity == IgnoreEntityCall

SpecEntity == InitEntity /\ [][NextEntity]_vars

----------------------------------------------------------------------------
(* Claims about ignore_entity_for_primitive.                               *)

EntityKeys == {"include_entities", "ignore_entities",
               "include_groupby_entities", "ignore_groupby_entities"}

\* the entity occurs in one of the four entity lists of some record
Mentioned(opts, e) ==
    \E k \in DOMAIN opts : \E key \in EntityKeys \cap DOMAIN opts[k] :
        e \in opts[k][key]

\* some record restricts entities to an include list that the call consults
HasIncludeList(opts, gb) ==
    \E k \in DOMAIN opts :
        \/ "include_entities" \in DOMAIN opts[k]
        \/ gb /\ "include_groupby_entities" \in DOMAIN opts[k]

EntityReturned == call = "ignore_entity_for_primitive" /\ pc = "returned"

\* C1 as stated: an entity that occurs in none of the four entity lists of
\* any record is admissible (ignore_entity_for_primitive returns False).
C1_AsStated ==
    (EntityReturned /\ ~Mentioned(options, entity)) => ignored = FALSE

\* C1 amended: an entity that occurs in none of the four entity lists of any
\* record is admissible provided no record has include_entities (nor, in
\* groupby mode, include_groupby_entities).
C1_UnmentionedAdmissible ==
    (EntityReturned /\ ~Mentioned(options, entity)
        /\ ~HasIncludeList(options, groupby)) => ignored = FALSE

\* C1 witness: the call returned for an unmentioned entity and a non-empty
\* list of records without include lists, one of which ignores some entity
\* and one of which has a groupby include list that the call does not consult.
C1_Witness ==
    /\ EntityReturned
    /\ ~Mentioned(options, entity)
    /\ ~HasIncludeList(options, groupby)
    /\ Len(options) = 2
    /\ options[1]["ignore_entities"] # {}
    /\ "include_groupby_entities" \in DOMAIN options[2]
    /\ ignored = FALSE

\* the single record of C5: include_entities = {A}, ignore_entities = {B}
IncludeAIgnoreB(opts, A, B) ==
    /\ Len(opts) = 1
    /\ "include_entities" \in DOMAIN opts[1]
    /\ opts[1]["include_entities"] = {A}
    /\ opts[1]["ignore_entities"] = {B}
    /\ A # B

\* C5: with one record whose include_entities = {A} and ignore_entities =
\* {B}, A # B, and groupby = False, entity A is admissible and every other
\* entity is excluded.
C5_IncludeOnlyA ==
    \A A, B \in Entities :
        (EntityReturned /\ ~groupby /\ IncludeAIgnoreB(options, A, B))
            => (ignored = (entity # A))

\* C5 witness: such a call returned True for an entity named nowhere.
C5_Witness ==
    /\ EntityReturned
    /\ ~groupby
    /\ IncludeAIgnoreB(options, "customers", "transactions")
    /\ entity = "sessions"
    /\ ~Mentioned(options, entity)
    /\ ignored = TRUE

----------------------------------------------------------------------------
(* Inputs of the match filters.                                            *)

TAmount == [transactions |-> {"amount"}]
CId == [customers |-> {"id"}]

\* the keys of a resolved record that the direct filter reads
DirectParts ==
    {[ignore_entities |-> {}, ignore_variables |-> ign] @@ inc :
        ign \in {EmptyDict, TAmount},
        inc \in OptionalKey("include_variables", {TAmount, CId})}

\* the keys of a resolved record that the groupby filter reads
GroupbyParts ==
    {gign @@ ginc :
        gign \in OptionalKey("ignore_groupby_variables", {TAmount}),
        ginc \in OptionalKey("include_groupby_variables", {TAmount, CId})}

VariableOptionRecords ==
    DirectParts
    \cup {[ignore_entities |-> {}, ignore_variables |-> EmptyDict] @@ g :
            g \in GroupbyParts}
    \cup {[ignore_entities |-> {}, ignore_variables |-> TAmount,
           include_variables |-> CId, include_groupby_variables |-> TAmount]}

\* a primitive has one record for all its inputs, or one per input
FilterOptionLists ==
    {<<>>} \cup {<<o>> : o \in VariableOptionRecords}
           \cup {<<o1, o2>> : o1, o2 \in VariableOptionRecords}

Features ==
    {IdentityFeature("transactions", "amount"),
     IdentityFeature("transactions", "customer_id"),
     OtherFeature("customers")}

\* candidate matches of primitives of one or two inputs
Matches == {<<f>> : f \in Features} \cup {<<f, g>> : f, g \in Features}

\* longest list of candidate matches
MaxMatches == 2

InitFilter ==
    /\ pc = "called"
    /\ raised = "none"
    /\ options \in FilterOptionLists
    /\ entity = "customers"
    /\ ignored = FALSE
    /\ valid_matches = {}
    /\ BuilderIdle
    /\ \/ /\ call = "filter_matches_by_options"
          /\ matches \in SeqsUpTo(Matches, MaxMatches)
          /\ groupby \in BOOLEAN
          /\ groupby_matches = <<>>
       \/ /\ call = "filter_groupby_matches_by_options"
          /\ groupby_matches \in SeqsUpTo(Features, MaxMatches)
          /\ groupby = TRUE
          /\ matches = <<>>

FilterMatchesCall ==
    /\ call = "filter_matches_by_options"
    /\ pc = "called"
    /\ LET r == FilterMatchesByOptions(matches, options, groupby)
       IN /\ raised' = r.raised
          /\ valid_matches' = r.valid_matches
          /\ pc' = IF r.raised = "none" THEN "returned" ELSE "raised"
    /\ UNCHANGED <<call, options, entity, groupby, ignored, matches,
                   groupby_matches, builder_vars>>

FilterGroupbyMatchesCall ==
    /\ call = "filter_groupby_matches_by_options"
    /\ pc = "called"
    /\ LET r == FilterGroupbyMatchesByOptions(groupby_matches, options)
       IN /\ raised' = r.raised
          /\ valid_matches' = r.valid_matches
          /\ pc' = IF r.raised = "none" THEN "returned" ELSE "raised"
    /\ UNCHANGED <<call, options, entity, groupby, ignored, matches,
                   groupby_matches, builder_vars>>

NextFilter == FilterMatchesCall \/ FilterGroupbyMatchesCall

SpecFilter == InitFilter /\ [][NextFilter]_vars

----------------------------------------------------------------------------
(* Claims about the match filters.                                         *)

FilterEnded ==
    /\ call \in {"filter_matches_by_options", "filter_groupby_matches_by_options"}
    /\ pc \in {"returned", "raised"}

\* the match tuples handed to filter_matches_by_options
Supplied ==
    IF call = "filter_groupby_matches_by_options"
    THEN {<<groupby_matches[k]>> : k \in DOMAIN groupby_matches}
    ELSE ToSet(matches)

\* C2: with an empty list of option records the filter returns exactly the
\* set of supplied candidate matches, without an error, also when there are
\* candidates and for both values of groupby.
C2_EmptyOptionsKeepAll ==
    (FilterEnded /\ options = <<>>)
        => (raised = "none" /\ valid_matches = Supplied)

\* C3: filter_groupby_matches_by_options never returns a candidate that is
\* not a base (identity) feature.
C3_GroupbyOnlyBase ==
    (call = "filter_groupby_matches_by_options" /\ pc = "returned")
        => \A m \in valid_matches : m[1].identity

\* the direct per-slot rule of C6 for record O and feature f
C6_Passes(O, f) ==
    IF ~f.identity THEN TRUE
    ELSE LET ignoredVar == /\ f.entity \in DOMAIN O["ignore_variables"]
                           /\ f.variable \in O["ignore_variables"][f.entity]
         IN IF "include_variables" \in DOMAIN O
            THEN \/ /\ f.entity \in DOMAIN O["include_variables"]
                    /\ f.variable \in O["include_variables"][f.entity]
                 \/ /\ f.entity \notin DOMAIN O["include_variables"]
                    /\ ~ignoredVar
            ELSE ~ignoredVar

\* C6: the direct filter of one record keeps a one-feature match exactly
\* when the feature is not a base feature, or is a base feature that the
\* record's include_variables lists, or whose entity include_variables does
\* not list (or is absent) and that ignore_variables does not list.
C6_DirectFilter ==
    (call = "filter_matches_by_options" /\ pc = "returned" /\ ~groupby
        /\ Len(options) = 1)
        => \A k \in DOMAIN matches :
              Len(matches[k]) = 1
                  => ((matches[k] \in valid_matches)
                        <=> C6_Passes(options[1], matches[k][1]))

\* C6 witness: with ignore_variables = {transactions: {amount}} and an
\* include_variables that lists another entity, transactions.amount is
\* rejected and transactions.customer_id passes.
C6_Witness ==
    /\ call = "filter_matches_by_options" /\ pc = "returned" /\ ~groupby
    /\ Len(options) = 1
    /\ options[1]["ignore_variables"] = TAmount
    /\ "include_variables" \in DOMAIN options[1]
    /\ matches = << <<IdentityFeature("transactions", "amount")>>,
                    <<IdentityFeature("transactions", "customer_id")>> >>
    /\ valid_matches = {<<IdentityFeature("transactions", "customer_id")>>}

\* the whole-match rule of C7: position k is judged by record k when there
\* are several records, by the only record otherwise
C7_Admissible(m, opts, gb) ==
    \A k \in DOMAIN m :
        Generator(gb, opts[IF Len(opts) > 1 THEN k ELSE 1], m[k])

\* C7: filter_matches_by_options returns exactly the supplied matches that
\* are admissible, position by position with several records (and matches
\* as long as the record list), feature by feature with one record.
C7_ExactlyAdmissible ==
    (call = "filter_matches_by_options" /\ pc = "returned"
        /\ Len(options) >= 1)
        => /\ valid_matches \subseteq ToSet(matches)
           /\ \A k \in DOMAIN matches :
                 (Len(options) = 1 \/ Len(matches[k]) = Len(options))
                     => ((matches[k] \in valid_matches)
                           <=> C7_Admissible(matches[k], options, groupby))

\* C7 witness: two records, the same candidate supplied twice and kept
\* once, and no other candidate kept; the kept match would fail with its
\* features swapped.
C7_Witness ==
    /\ call = "filter_matches_by_options" /\ pc = "returned"
    /\ Len(options) = 2
    /\ Len(matches) = 2
    /\ matches[1] = matches[2]
    /\ Len(matches[1]) = 2
    /\ valid_matches = {matches[1]}
    /\ ~C7_Admissible(<<matches[1][2], matches[1][1]>>, options, groupby)

----------------------------------------------------------------------------
(* Raw option values as the user writes them.  A Python value carries its  *)
(* type; a dict keeps its items in insertion order, the order in which     *)
(* .value() yields them.                                                   *)

PyList(items) == [type |-> "list", value |-> items]
PyDict(items) == [type |-> "dict", value |-> items]
PyStr(value) == [type |-> "str", value |-> value]
PyTuple(items) == [type |-> "tuple", value |-> items]

\* the keys of a raw dict
Keys(dict) == {dict.value[k][1] : k \in DOMAIN dict.value}

\* dict[key]
Lookup(dict, key) ==
    dict.value[CHOOSE k \in DOMAIN dict.value : dict.value[k][1] = key][2]

----------------------------------------------------------------------------
(* _get_primitive_options and the two checks                               *)

\* option key -> the check of its value
PrimitiveOptionChecks ==
    [ignore_entities |-> "list_entity_check",
     include_entities |-> "list_entity_check",
     ignore_variables |-> "dict_to_list_variable_check",
     include_variables |-> "dict_to_list_variable_check",
     ignore_groupby_entities |-> "list_entity_check",
     include_groupby_entities |-> "list_entity_check",
     ignore_groupby_variables |-> "dict_to_list_variable_check",
     include_groupby_variables |-> "dict_to_list_variable_check"]

\* value returned by dict_to_list_variable_check(option, es)
dict_to_list_variable_check(option) ==
    /\ option.type = "dict"
    /\ \A k \in DOMAIN option.value : option.value[k][2].type = "list"

\* the warnings of dict_to_list_variable_check, issued when it returns True
DictWarnings(option) ==
    {<<"Entity not in entityset", e>> : e \in Keys(option) \ DOMAIN EntitysetDict}
    \cup UNION {{<<"Variable not in entity", v, e>> :
                    v \in ToSet(Lookup(option, e).value) \ EntitysetDict[e]} :
                e \in Keys(option) \cap DOMAIN EntitysetDict}

\* value returned by list_entity_check(option, es)
list_entity_check(option) == option.type = "list"

\* the warnings of list_entity_check, issued when it returns True
ListWarnings(option) ==
    {<<"Entity not in entityset", e>> : e \in ToSet(option.value) \ DOMAIN EntitysetDict}

\* primitive_options[option_key](option, es): the value and the warnings
CheckOption(option_key, option) ==
    IF PrimitiveOptionChecks[option_key] = "list_entity_check"
    THEN [ok |-> list_entity_check(option),
          warnings |-> IF list_entity_check(option)
                       THEN ListWarnings(option) ELSE {}]
    ELSE [ok |-> dict_to_list_variable_check(option),
          warnings |-> IF dict_to_list_variable_check(option)
                       THEN DictWarnings(option) ELSE {}]

----------------------------------------------------------------------------
(* _init_option_dict                                                       *)

\* set(option), or {key: set(option[key]) for key in option}
ConvertOption(option) ==
    IF option.type = "list"
    THEN ToSet(option.value)
    ELSE [e \in Keys(option) |-> ToSet(Lookup(option, e).value)]

\* the last two statements of _init_option_dict: ignore_variables and
\* ignore_entities default to empty
WithDefaults(initialized) ==
    initialized
    @@ (IF "ignore_variables" \notin DOMAIN initialized
        THEN "ignore_variables" :> EmptyDict ELSE EmptyDict)
    @@ (IF "ignore_entities" \notin DOMAIN initialized
        THEN "ignore_entities" :> {} ELSE EmptyDict)

\* the loop of _init_option_dict from item k on; acc holds the exception
\* raised so far, initialized_option_dict and the warnings issued
RECURSIVE InitOptionItems(_, _, _)
InitOptionItems(option_dict, k, acc) ==
    IF k > Len(option_dict.value) THEN acc
    ELSE LET option_key == option_dict.value[k][1]
             option == option_dict.value[k][2]
         IN IF option_key \notin DOMAIN PrimitiveOptionChecks
            THEN [acc EXCEPT !.raised = "KeyError: Unrecognized primitive option"]
            ELSE LET checked == CheckOption(option_key, option)
                 IN IF ~checked.ok
                    THEN [acc EXCEPT !.raised = "TypeError: Incorrect type formatting"]
                    ELSE InitOptionItems(option_dict, k + 1,
                            [acc EXCEPT
                                !.value = (option_key :> ConvertOption(option)) @@ @,
                                !.warnings = @ \cup checked.warnings])

\* _init_option_dict(key, option_dict, es): the exception raised ("none" if
\* none), the record returned and the warnings issued
InitOptionDict(option_dict) ==
    LET looped == InitOptionItems(option_dict, 1,
                    [raised |-> "none", value |-> EmptyDict, warnings |-> {}])
    IN IF looped.raised # "none" THEN looped
       ELSE [looped EXCEPT !.value = WithDefaults(@)]

----------------------------------------------------------------------------
(* _init_primitive_options                                                 *)

\* The primitives known by name and the number of inputs each declares
\* (len(primitive.input_types), or of its first signature).
PrimitiveInputs == [sum |-> 1, trend |-> 2, count |-> 1]

\* primitives.get_aggregation_primitives().get(primitive_key) or
\* primitives.get_transform_primitives().get(primitive_key): <<inputs>> of
\* the primitive of that name, <<>> (None) for any other key, a tuple too
GetPrimitive(primitive_key) ==
    IF primitive_key.type = "str" /\ primitive_key.value \in DOMAIN PrimitiveInputs
    THEN <<PrimitiveInputs[primitive_key.value]>>
    ELSE <<>>

\* [_init_option_dict(primitive_key, option, es) for option in options]
\* from position k on
RECURSIVE InitOptionList(_, _, _)
InitOptionList(dicts, k, acc) ==
    IF k > Len(dicts) THEN acc
    ELSE LET one == InitOptionDict(dicts[k])
         IN IF one.raised # "none"
            THEN [acc EXCEPT !.raised = one.raised,
                             !.warnings = @ \cup one.warnings]
            ELSE InitOptionList(dicts, k + 1,
                    [acc EXCEPT !.value = Append(@, one.value),
                                !.warnings = @ \cup one.warnings])

\* the loop "for each_primitive in primitive_key" from position k on: every
\* primitive of the key gets the same list (the list of id)
RECURSIVE AssignPrimitives(_, _, _, _)
AssignPrimitives(names, k, id, acc) ==
    IF k > Len(names) THEN acc
    ELSE IF names[k] \in DOMAIN acc.flattened_options
         THEN [acc EXCEPT !.raised = "KeyError: Multiple options found"]
         ELSE AssignPrimitives(names, k + 1, id,
                [acc EXCEPT !.flattened_options = (names[k] :> id) @@ @])

\* one pass of the loop over primitive_options.value(), for item k
InitPrimitiveEntry(primitive_key, value, k, acc) ==
    IF value.type = "list" /\ GetPrimitive(primitive_key) = <<>>
    THEN [acc EXCEPT !.raised =
            "AttributeError: 'NoneType' object has no attribute 'input_types'"]
    ELSE IF value.type = "list" /\ GetPrimitive(primitive_key)[1] # Len(value.value)
    THEN [acc EXCEPT !.raised =
            "AssertionError: Number of options does not match number of inputs"]
    ELSE LET inited == InitOptionList(
                          IF value.type = "list" THEN value.value ELSE <<value>>, 1,
                          [raised |-> "none", value |-> <<>>,
                           warnings |-> acc.warnings])
             names == IF primitive_key.type = "tuple"
                      THEN primitive_key.value ELSE <<primitive_key.value>>
         IN IF inited.raised # "none"
            THEN [acc EXCEPT !.raised = inited.raised,
                             !.warnings = inited.warnings]
            ELSE AssignPrimitives(names, 1, k,
                    [acc EXCEPT !.option_lists = (k :> inited.value) @@ @,
                                !.warnings = inited.warnings])

RECURSIVE InitPrimitiveEntries(_, _, _)
InitPrimitiveEntries(raw, k, acc) ==
    IF k > Len(raw) THEN acc
    ELSE LET done == InitPrimitiveEntry(raw[k][1], raw[k][2], k, acc)
         IN IF done.raised # "none" THEN done
            ELSE InitPrimitiveEntries(raw, k + 1, done)

\* _init_primitive_options(primitive_options, es): the exception raised
\* ("none" if none), flattened_options (primitive -> id of its list), the
\* lists and the warnings issued
InitPrimitiveOptions(raw) ==
    InitPrimitiveEntries(raw, 1,
        [raised |-> "none", flattened_options |-> EmptyDict,
         option_lists |-> EmptyDict, warnings |-> {}])

\* the table a caller sees: primitive -> list of option records
Table(flattened, lists) ==
    [p \in DOMAIN flattened |-> lists[flattened[p]]]

----------------------------------------------------------------------------
(* Raw inputs of the table builder.                                        *)

\* option dicts that pass every check
ValidOptionDicts ==
    {PyDict(<<>>),
     PyDict(<< <<"include_entities", PyList(<<"customers">>)>> >>),
     PyDict(<< <<"include_variables",
                 PyDict(<< <<"transactions", PyList(<<"amount">>)>> >>)>>,
               <<"ignore_variables",
                 PyDict(<< <<"transactions", PyList(<<"id">>)>> >>)>> >>),
     PyDict(<< <<"ignore_entities", PyList(<<"customers">>)>>,
               <<"include_entities", PyList(<<"customers", "customers">>)>> >>),
     PyDict(<< <<"ignore_variables",
                 PyDict(<< <<"customers", PyList(<<"age", "zip">>)>> >>)>>,
               <<"ignore_groupby_entities", PyList(<<"sessions">>)>> >>)}

\* an unrecognized key
BogusOptionDict ==
    PyDict(<< <<"ignore_entities", PyList(<<"sessions">>)>>,
              <<"bogus_option", PyList(<<"customers">>)>> >>)

\* values of the wrong shape: a string for a list of entities, a string for
\* the list of variables of an entity
MisshapenOptionDicts ==
    {PyDict(<< <<"ignore_entities", PyStr("customers")>> >>),
     PyDict(<< <<"include_variables",
                 PyDict(<< <<"transactions", PyStr("amount")>> >>)>> >>)}

\* the keys of primitive_options: a primitive name or a tuple of names
PrimitiveKeys ==
    {PyStr("sum"), PyStr("trend"),
     PyTuple(<<"sum", "trend">>), PyTuple(<<"sum", "count">>)}

\* the values of primitive_options over a set of option dicts: one dict for
\* all inputs, or a list of one or two dicts
OptionValues(dicts) ==
    dicts \cup {PyList(<<d>>) : d \in dicts}
          \cup {PyList(<<d1, d2>>) : d1, d2 \in dicts}

\* the mappings of at most two items over keys and values (a dict has no
\* key twice)
Mappings(keys, values) ==
    {<<>>}
    \cup {<< <<k, v>> >> : k \in keys, v \in values}
    \cup {m \in {<< <<k1, v1>>, <<k2, v2>> >> :
                    k1 \in keys, k2 \in keys, v1 \in values, v2 \in values} :
            m[1][1] # m[2][1]}

InitRaw ==
    /\ call = "_init_primitive_options"
    /\ pc = "called"
    /\ raised = "none"
    /\ FilterIdle
    /\ primitive_options \in
          Mappings(PrimitiveKeys,
                   OptionValues(ValidOptionDicts \cup {BogusOptionDict}
                                \cup MisshapenOptionDicts))
    /\ all_primitives = <<>>
    /\ ignore_entities = {}
    /\ ignore_variables = EmptyDict
    /\ flattened_options = EmptyDict
    /\ option_lists = EmptyDict
    /\ aliased = {}
    /\ global_ignore_entities = {}
    /\ i = 0
    /\ warnings = {}
    /\ result = <<>>
    /\ call_no = 1
    /\ first_result = <<>>

\* a call of _init_primitive_options(primitive_options, es)
InitPrimitiveOptionsCall ==
    /\ call = "_init_primitive_options"
    /\ pc = "called"
    /\ LET r == InitPrimitiveOptions(primitive_options)
       IN /\ raised' = r.raised
          /\ warnings' = r.warnings
          /\ IF r.raised = "none"
             THEN /\ pc' = "returned"
                  /\ flattened_options' = r.flattened_options
                  /\ option_lists' = r.option_lists
                  /\ result' = <<Table(r.flattened_options, r.option_lists)>>
             ELSE /\ pc' = "raised"
                  /\ UNCHANGED <<flattened_options, option_lists, result>>
    /\ UNCHANGED <<call, filter_vars, primitive_options, all_primitives,
                   ignore_entities, ignore_variables, aliased,
                   global_ignore_entities, i, call_no, first_result>>

NextInit == InitPrimitiveOptionsCall

SpecInit == InitRaw /\ [][NextInit]_vars

----------------------------------------------------------------------------
(* generate_all_primitive_options                                          *)

\* included_entities with a fault: the keys of include_variables are left
\* out
IncludedEntitiesByListOnly(opts) ==
    UNION {GetOrEmpty(opts[k], "include_entities") : k \in DOMAIN opts}

\* included_entities: the union over the records of include_entities and
\* of the keys of include_variables
IncludedEntities(opts) ==
    UNION {GetOrEmpty(opts[k], "include_entities")
           \cup (IF "include_variables" \in DOMAIN opts[k]
                 THEN DOMAIN opts[k]["include_variables"] ELSE {}) :
           k \in DOMAIN opts}

\* receiver -= other, a fault: the set is changed in place
DifferenceUpdate(receiver, other) ==
    [receiver |-> receiver \ other, value |-> receiver \ other]

\* receiver.difference(other): a new set, the receiver is left as it was
Difference(receiver, other) ==
    [receiver |-> receiver, value |-> receiver \ other]

\* the body of the loops over ignore_variables.items() and options with a
\* fault: an explicitly included entity is skipped first
ReconcileIgnoreVariableSkipFirst(option_ignore, e, ignore_vars, included) ==
    IF e \in included
    THEN option_ignore
    ELSE IF e \in DOMAIN option_ignore
    THEN [option_ignore EXCEPT ![e] = @ \cup ignore_vars]
    ELSE (e :> ignore_vars) @@ option_ignore

\* the body of the loops over ignore_variables.items() and options, for
\* option['ignore_variables'] of one record and one global entry
ReconcileIgnoreVariable(option_ignore, e, ignore_vars, included) ==
    IF e \in DOMAIN option_ignore
    THEN [option_ignore EXCEPT ![e] = @ \cup ignore_vars]
    ELSE IF e \in included
    THEN option_ignore
    ELSE (e :> ignore_vars) @@ option_ignore

\* the loop over ignore_variables.items() for one record; todo are the
\* global entries still to come
RECURSIVE ReconcileIgnoreVariables(_, _, _, _)
ReconcileIgnoreVariables(option_ignore, global, todo, included) ==
    IF todo = {} THEN option_ignore
    ELSE LET e == CHOOSE x \in todo : TRUE
         IN ReconcileIgnoreVariables(
                ReconcileIgnoreVariable(option_ignore, e, global[e], included),
                global, todo \ {e}, included)

\* one record after the reconciliation with the global options
ReconcileOption(option, included, global_entities, global_variables) ==
    [option EXCEPT
        !["ignore_entities"] = @ \cup (global_entities \ included),
        !["ignore_variables"] =
            ReconcileIgnoreVariables(@, global_variables,
                                     DOMAIN global_variables, included)]

\* the record of a primitive without options of its own; both values are
\* the caller's objects
DefaultOption(global_entities, global_variables) ==
    [ignore_entities |-> global_entities, ignore_variables |-> global_variables]

\* id 0 of aliased: global_ignore_entities is the caller's ignore_entities
\* set itself (until the first difference gives it a set of its own)
CallerSet == 0

\* generate_all_primitive_options up to the loop: _init_primitive_options,
\* then global_ignore_entities = ignore_entities
GenerateCall ==
    /\ call = "generate_all_primitive_options"
    /\ pc = "called"
    /\ LET r == InitPrimitiveOptions(primitive_options)
       IN /\ raised' = r.raised
          /\ warnings' = warnings \cup r.warnings
          /\ IF r.raised = "none"
             THEN /\ pc' = "loop"
                  /\ flattened_options' = r.flattened_options
                  /\ option_lists' = r.option_lists
                  /\ aliased' = {CallerSet}
                  /\ global_ignore_entities' = ignore_entities
                  /\ i' = 1
             ELSE /\ pc' = "raised"
                  /\ UNCHANGED <<flattened_options, option_lists, aliased,
                                 global_ignore_entities, i>>
    /\ UNCHANGED <<call, filter_vars, primitive_options, all_primitives,
                   ignore_entities, ignore_variables, result, call_no,
                   first_result>>

\* one pass of the loop for a primitive that has option records
ReconcilePrimitive ==
    /\ call = "generate_all_primitive_options"
    /\ pc = "loop"
    /\ i <= Len(all_primitives)
    /\ all_primitives[i] \in DOMAIN flattened_options
    /\ LET id == flattened_options[all_primitives[i]]
           opts == option_lists[id]
           included == IncludedEntities(opts)
           d == Difference(global_ignore_entities, included)
           caller_entities == IF CallerSet \in aliased THEN d.receiver
                              ELSE ignore_entities
           reconciled == [k \in DOMAIN opts |->
                            ReconcileOption(opts[k], included, caller_entities,
                                            ignore_variables)]
       IN /\ global_ignore_entities' = d.value
          /\ ignore_entities' = caller_entities
          /\ aliased' = aliased \ {CallerSet}
          /\ IF id \in aliased
             THEN \* the record's dict is the caller's: the item assignments
                  \* show in the caller's dict and in every record that is it
                  /\ ignore_variables' = reconciled[1]["ignore_variables"]
                  /\ option_lists' =
                        [j \in DOMAIN option_lists |->
                            IF j = id THEN reconciled
                            ELSE IF j \in aliased
                            THEN [n \in DOMAIN option_lists[j] |->
                                    [option_lists[j][n] EXCEPT
                                        !["ignore_variables"] =
                                            reconciled[1]["ignore_variables"]]]
                            ELSE option_lists[j]]
             ELSE /\ option_lists' = [option_lists EXCEPT ![id] = reconciled]
                  /\ UNCHANGED ignore_variables
    /\ i' = i + 1
    /\ UNCHANGED <<call, pc, raised, filter_vars, primitive_options,
                   all_primitives, flattened_options, warnings, result,
                   call_no, first_result>>

\* one pass of the loop for a primitive without option records
DefaultPrimitive ==
    /\ call = "generate_all_primitive_options"
    /\ pc = "loop"
    /\ i <= Len(all_primitives)
    /\ all_primitives[i] \notin DOMAIN flattened_options
    /\ LET id == Len(primitive_options) + i
       IN /\ flattened_options' = (all_primitives[i] :> id) @@ flattened_options
          /\ option_lists' =
                (id :> <<DefaultOption(ignore_entities, ignore_variables)>>)
                @@ option_lists
          /\ aliased' = aliased \cup {id}
    /\ i' = i + 1
    /\ UNCHANGED <<call, pc, raised, filter_vars, primitive_options,
                   all_primitives, ignore_entities, ignore_variables,
                   global_ignore_entities, warnings, result, call_no,
                   first_result>>

\* return primitive_options, global_ignore_entities
GenerateReturn ==
    /\ call = "generate_all_primitive_options"
    /\ pc = "loop"
    /\ i > Len(all_primitives)
    /\ pc' = "returned"
    /\ result' = <<Table(flattened_options, option_lists), global_ignore_entities>>
    /\ UNCHANGED <<call, raised, filter_vars, primitive_options, all_primitives,
                   ignore_entities, ignore_variables, flattened_options,
                   option_lists, aliased, global_ignore_entities, i, warnings,
                   call_no, first_result>>

\* the caller calls again with the objects it passed to the first call
CallAgain ==
    /\ call = "generate_all_primitive_options"
    /\ pc = "returned"
    /\ call_no = 1
    /\ call_no' = 2
    /\ first_result' = result
    /\ result' = <<>>
    /\ pc' = "called"
    /\ flattened_options' = EmptyDict
    /\ option_lists' = EmptyDict
    /\ aliased' = {}
    /\ global_ignore_entities' = {}
    /\ i' = 0
    /\ UNCHANGED <<call, raised, filter_vars, primitive_options, all_primitives,
                   ignore_entities, ignore_variables, warnings>>

\* longest list all_primitives
MaxPrimitives == 3

\* the raw mappings given to generate_all_primitive_options: one item of any
\* form, or two items of one option dict each
GenerateMappings ==
    {m \in Mappings(PrimitiveKeys,
                    OptionValues(ValidOptionDicts \cup {BogusOptionDict})) :
        Len(m) = 2 => (m[1][2] \in ValidOptionDicts /\ m[2][2] \in ValidOptionDicts)}

Init ==
    /\ call = "generate_all_primitive_options"
    /\ pc = "called"
    /\ raised = "none"
    /\ FilterIdle
    /\ primitive_options \in GenerateMappings
    /\ all_primitives \in SeqsUpTo(DOMAIN PrimitiveInputs, MaxPrimitives)
    /\ ignore_entities \in {{}, {"customers", "transactions"}}
    /\ ignore_variables \in
          {EmptyDict, [transactions |-> {"amount"}, customers |-> {"age"}]}
    /\ flattened_options = EmptyDict
    /\ option_lists = EmptyDict
    /\ aliased = {}
    /\ global_ignore_entities = {}
    /\ i = 0
    /\ warnings = {}
    /\ result = <<>>
    /\ call_no = 1
    /\ first_result = <<>>

Next ==
    \/ GenerateCall
    \/ ReconcilePrimitive
    \/ DefaultPrimitive
    \/ GenerateReturn
    \/ CallAgain

Spec == Init /\ [][Next]_vars

----------------------------------------------------------------------------
(* Claims about option-table construction.                                 *)

\* the option dicts of a value of primitive_options
DictsOf(value) == IF value.type = "list" THEN ToSet(value.value) ELSE {value}

\* the primitive names of a key
NamesOf(primitive_key) ==
    IF primitive_key.type = "tuple" THEN primitive_key.value
    ELSE <<primitive_key.value>>

\* some option dict has a key outside the eight option keys
HasUnrecognizedKey(raw) ==
    \E k \in DOMAIN raw : \E d \in DictsOf(raw[k][2]) :
        Keys(d) \ DOMAIN PrimitiveOptionChecks # {}

\* some recognized option has a value of the wrong shape
HasWrongShape(raw) ==
    \E k \in DOMAIN raw : \E d \in DictsOf(raw[k][2]) :
        \E key \in Keys(d) \cap DOMAIN PrimitiveOptionChecks :
            ~CheckOption(key, Lookup(d, key)).ok

\* some list of option dicts is not as long as the inputs of a primitive
\* of its key
HasSlotCountMismatch(raw) ==
    \E k \in DOMAIN raw :
        /\ raw[k][2].type = "list"
        /\ \E n \in DOMAIN NamesOf(raw[k][1]) :
              /\ NamesOf(raw[k][1])[n] \in DOMAIN PrimitiveInputs
              /\ PrimitiveInputs[NamesOf(raw[k][1])[n]] # Len(raw[k][2].value)

\* some primitive occurs under more than one key, or twice in a key
HasDuplicatePrimitive(raw) ==
    \E k1, k2 \in DOMAIN raw :
        \E n1 \in DOMAIN NamesOf(raw[k1][1]), n2 \in DOMAIN NamesOf(raw[k2][1]) :
            /\ <<k1, n1>> # <<k2, n2>>
            /\ NamesOf(raw[k1][1])[n1] = NamesOf(raw[k2][1])[n2]

\* the errors that correspond to the faults of the raw mapping
CorrespondingErrors(raw) ==
    (IF HasUnrecognizedKey(raw)
     THEN {"KeyError: Unrecognized primitive option"} ELSE {})
    \cup (IF HasWrongShape(raw)
          THEN {"TypeError: Incorrect type formatting"} ELSE {})
    \cup (IF HasSlotCountMismatch(raw)
          THEN {"AssertionError: Number of options does not match number of inputs"}
          ELSE {})
    \cup (IF HasDuplicatePrimitive(raw)
          THEN {"KeyError: Multiple options found"} ELSE {})

\* the option dict the user gave for input slot n of the list of id k
UserDict(raw, k, n) ==
    IF raw[k][2].type = "list" THEN raw[k][2].value[n] ELSE raw[k][2]

\* every record has ignore_entities and ignore_variables, and any other key
\* only if the user gave it
WellFormedTable(raw, flattened, lists) ==
    \A p \in DOMAIN flattened : \A n \in DOMAIN lists[flattened[p]] :
        LET record == lists[flattened[p]][n]
        IN /\ {"ignore_entities", "ignore_variables"} \subseteq DOMAIN record
           /\ DOMAIN record \ {"ignore_entities", "ignore_variables"}
                 \subseteq Keys(UserDict(raw, flattened[p], n))

InitEnded ==
    call = "_init_primitive_options" /\ pc \in {"returned", "raised"}

\* C9: table construction fails fast: a raw mapping with an unrecognized
\* option key, a misshapen value, a list of the wrong length or a primitive
\* under more than one key ends in the corresponding error and returns
\* nothing; any other raw mapping returns a table whose records all have
\* ignore_entities and ignore_variables and have the other keys only if the
\* user gave them.
C9_FailFast ==
    InitEnded =>
        IF CorrespondingErrors(primitive_options) # {}
        THEN /\ pc = "raised"
             /\ raised \in CorrespondingErrors(primitive_options)
             /\ result = <<>>
        ELSE /\ pc = "returned"
             /\ raised = "none"
             /\ result = <<Table(flattened_options, option_lists)>>
             /\ WellFormedTable(primitive_options, flattened_options, option_lists)

----------------------------------------------------------------------------
(* Claims about generate_all_primitive_options.                            *)

GenerateReturned ==
    call = "generate_all_primitive_options" /\ pc = "returned"

\* the primitives of all_primitives that the user gave options for
ExplicitPrimitives ==
    {p \in ToSet(all_primitives) :
        \E k \in DOMAIN primitive_options :
            p \in ToSet(NamesOf(primitive_options[k][1]))}

\* the item of primitive_options whose key names p
ItemOf(p) ==
    CHOOSE k \in DOMAIN primitive_options :
        p \in ToSet(NamesOf(primitive_options[k][1]))

\* the option dicts the user gave for p, one per record
UserDicts(p) ==
    LET value == primitive_options[ItemOf(p)][2]
    IN IF value.type = "list" THEN value.value ELSE <<value>>

\* the entities of list option key of a user's dict (none if not given)
UserEntities(dict, key) ==
    IF key \in Keys(dict) THEN ToSet(Lookup(dict, key).value) ELSE {}

\* the entities a user's dict includes: include_entities and the keys of
\* include_variables
UserIncludes(dict) ==
    UserEntities(dict, "include_entities")
    \cup (IF "include_variables" \in Keys(dict)
          THEN Keys(Lookup(dict, "include_variables")) ELSE {})

\* the entities some record of p includes
IncludedBy(p) == UNION {UserIncludes(UserDicts(p)[n]) : n \in DOMAIN UserDicts(p)}

\* C4: for a primitive P of all_primitives with option records and a
\* globally ignored entity X: if a record of P includes X, X is in that
\* record's ignore_entities only if the user put it there, and X is not in
\* the residual global-ignore set; if no record of P includes X, X is in
\* the ignore_entities of every record of P.
C4_IncludedNotIgnored ==
    GenerateReturned =>
        \A p \in ExplicitPrimitives : \A X \in ignore_entities :
            /\ \A n \in DOMAIN UserDicts(p) :
                  X \in UserIncludes(UserDicts(p)[n])
                      => /\ (X \in result[1][p][n]["ignore_entities"])
                              <=> (X \in UserEntities(UserDicts(p)[n], "ignore_entities"))
                         /\ X \notin result[2]
            /\ X \notin IncludedBy(p)
                  => \A n \in DOMAIN result[1][p] :
                        X \in result[1][p][n]["ignore_entities"]

\* C4 witness: trend has two records, the second
\* of which includes the globally ignored transactions by include_variables
\* while the first includes customers, which the user also ignores there.
C4_Witness ==
    /\ GenerateReturned
    /\ "trend" \in ExplicitPrimitives
    /\ Len(UserDicts("trend")) = 2
    /\ ignore_entities = {"customers", "transactions"}
    /\ "customers" \in UserIncludes(UserDicts("trend")[1])
    /\ "customers" \in UserEntities(UserDicts("trend")[1], "ignore_entities")
    /\ "transactions" \in UserIncludes(UserDicts("trend")[2])
    /\ "transactions" \notin result[1]["trend"][1]["ignore_entities"]
    /\ "transactions" \notin result[1]["trend"][2]["ignore_entities"]
    /\ result[2] = {}

\* the case of C10: record n of p has a user's ignore_variables entry for E,
\* p includes E, and the global ignore_variables has an entry for E
C10_Case(p, n, E) ==
    /\ "ignore_variables" \in Keys(UserDicts(p)[n])
    /\ E \in Keys(Lookup(UserDicts(p)[n], "ignore_variables"))
    /\ E \in IncludedBy(p)
    /\ E \in DOMAIN ignore_variables

\* the variables of E the user ignores in record n of p
UserIgnoredVariables(p, n, E) ==
    ToSet(Lookup(Lookup(UserDicts(p)[n], "ignore_variables"), E).value)

\* C10 as stated: in that case the record's ignore_variables[E] after the
\* reconciliation is the set the user gave.
C10_AsStated ==
    GenerateReturned =>
        \A p \in ExplicitPrimitives : \A n \in DOMAIN UserDicts(p) :
            \A E \in Entities :
                C10_Case(p, n, E)
                    => result[1][p][n]["ignore_variables"][E]
                          = UserIgnoredVariables(p, n, E)

\* C10 amended: in that case the record's ignore_variables[E] after the
\* reconciliation is the set the user gave united with the global
\* ignore_variables[E].
C10_GlobalsAdded ==
    GenerateReturned =>
        \A p \in ExplicitPrimitives : \A n \in DOMAIN UserDicts(p) :
            \A E \in Entities :
                C10_Case(p, n, E)
                    => result[1][p][n]["ignore_variables"][E]
                          = UserIgnoredVariables(p, n, E) \cup ignore_variables[E]

\* C10 witness: sum ignores transactions.id and includes transactions, the
\* global rules ignore transactions.amount, and the record ends with both.
C10_Witness ==
    /\ GenerateReturned
    /\ "sum" \in ExplicitPrimitives
    /\ C10_Case("sum", 1, "transactions")
    /\ UserIgnoredVariables("sum", 1, "transactions") = {"id"}
    /\ ignore_variables["transactions"] = {"amount"}
    /\ result[1]["sum"][1]["ignore_variables"]["transactions"] = {"id", "amount"}

\* C8: a call leaves the contents of the caller's ignore_entities,
\* ignore_variables and primitive_options as they were, and a second call
\* with the same objects returns a pair equal to the first.
C8_InputsKept ==
    /\ [][/\ ignore_entities' = ignore_entities
          /\ ignore_variables' = ignore_variables
          /\ primitive_options' = primitive_options]_vars
    /\ []((GenerateReturned /\ call_no = 2) => result = first_result)

\* C8 witness: the second call returned; all_primitives lists a primitive
\* without options twice (its default record is reconciled on the second
\* visit) around a primitive with options that includes a globally ignored
\* entity.
C8_Witness ==
    /\ GenerateReturned
    /\ call_no = 2
    /\ all_primitives = <<"count", "sum", "count">>
    /\ ExplicitPrimitives = {"sum"}
    /\ IncludedBy("sum") \cap ignore_entities # {}
    /\ ignore_variables # EmptyDict
    /\ result = first_result

====
